---- MODULE Spec2Model ----
(***************************************************************************)
(* Model of import-export-cli/operator/registry/registry.go: the catalog   *)
(* of docker registries, the selection of one of them, the validation of   *)
(* batch-mode flags and the update of the controller config followed by    *)
(* the creation of the registry secret.                                    *)
(***************************************************************************)
EXTENDS Integers, Sequences, FiniteSets, TLC

VARIABLES registries, optionToExec, status, lastError, lastOp, lastInput,
          calls, cluster, secret

vars == <<registries, optionToExec, status, lastError, lastOp, lastInput,
          calls, cluster, secret>>

\* ------------------------------------------------------------------ bounds
\* Largest value of Registry.Option tried by add.
MaxOption == 2

\* ------------------------------------------------------------ small domains
\* Values of Registry.Option handed to add: non-positive ones included.
Options == (0 - 1)..MaxOption

FlagNames == {"u", "p", "k"}

\* Values a Read callback may store in *Registry.Repository.
Repos == {"repo1"}

\* Names asked of SetRegistry: the registered ones and one that is not.
RegistryTypes == {"DOCKER_HUB", "AMAZON_ECR", "NONE"}

\* Go's map read: the zero value (false) for a missing key.
Lookup(m, k) == IF k \in DOMAIN m THEN m[k] ELSE FALSE

EmptyMap == [x \in {} |-> FALSE]

\* The Flags of the registries the model registers. RequiredFlags and
\* OptionalFlags are maps flag name -> bool; an entry may be false.
\* FlagsA: u and p required, k optional.
\* FlagsB: u required, p listed as not required, k not listed at all.
FlagsA == [RequiredFlags |-> [x \in {"u", "p"} |-> TRUE],
           OptionalFlags |-> [x \in {"k"} |-> TRUE]]
FlagsB == [RequiredFlags |-> [x \in {"u", "p"} |-> (x = "u")],
           OptionalFlags |-> EmptyMap]

\* A Registry value (Read and Run are the callbacks modelled by ReadCallback
\* and RunCallback). Repository points at a string that is "" until read.
Registry(name, option, flags) ==
    [Name |-> name, Caption |-> name, Repository |-> "", Option |-> option,
     Flags |-> flags]

\* The descriptors add is called with.
Registrations ==
    { Registry("DOCKER_HUB", o, FlagsA) : o \in Options } \cup
    { Registry("AMAZON_ECR", o, FlagsB) : o \in Options }

\* FlagValue maps: flag name -> IsProvided (Value is opaque to this package).
FlagValueMaps ==
    UNION { [S -> BOOLEAN] : S \in SUBSET FlagNames }

\* ----------------------------------------------------------- fatal errors
NoError == <<"", "">>

\* utils.HandleErrorAndExit(msg, err): prints the error and ends the process.
HandleErrorAndExit(msg, err) == [status |-> "exited", err |-> <<msg, err>>]

\* The process ends the way h says.
Ends(h) == status' = h.status /\ lastError' = h.err

\* A failed type assertion or a nil dereference: the runtime panics.
Panic(what) == [status |-> "panicked", err |-> <<"panic", what>>]

Running == status = "running"

\* registries[optionToExec] is nil when the option is not a key of the map.
Selected == registries[optionToExec]
HasSelected == optionToExec \in DOMAIN registries

\* ------------------------------------------------------- controller config
\* Keys of the `data` mapping set by updateCtrlConfig.
CtrlConfigRegType == "registryType"
CtrlConfigReg == "repository"

\* A YAML value is a scalar (tag "str", text s) or a mapping (tag "map").
\* In YAML text a mapping is the sequence m of its entries [k, v] as written;
\* decoded, it is a function from keys to values.
Scalar(s) == [tag |-> "str", s |-> s, m |-> <<>>]
Mapping(m) == [tag |-> "map", s |-> "", m |-> m]
Entry(k, v) == [k |-> k, v |-> v]

\* yaml.v2 writes the keys of a map in sorted order.
KeyOrder == <<"apiVersion", "data", "dockerfile", "kind", "registryType", "repository">>

\* What kubectl may print for the controller-config config map.
\* parses = FALSE: the output is not a YAML mapping.
Text(parses, entries) == [parses |-> parses, entries |-> entries]

OldData == <<Entry("repository", "oldrepo"), Entry("registryType", "DOCKER_HUB"),
             Entry("dockerfile", "df")>>

ConfigTexts ==
    { Text(TRUE, <<Entry("kind", Scalar("ConfigMap")), Entry("data", Mapping(OldData))>>),
      Text(TRUE, <<Entry("data", Mapping(<<Entry("dockerfile", "df")>>)),
                   Entry("apiVersion", Scalar("v1"))>>),
      Text(TRUE, <<Entry("kind", Scalar("ConfigMap"))>>),
      Text(TRUE, <<Entry("data", Scalar("none"))>>),
      Text(FALSE, <<>>) }

\* The cluster either has no controller-config (api operator not installed)
\* or holds one as YAML text.
NoConfig == [installed |-> FALSE, text |-> Text(FALSE, <<>>)]
Config(text) == [installed |-> TRUE, text |-> text]

\* decode of a sequence of entries: a later duplicate key overrides.
DecodeEntries(es) ==
    LET keys == { es[i].k : i \in DOMAIN es }
        last(k) == CHOOSE i \in DOMAIN es :
                      /\ es[i].k = k
                      /\ \A j \in DOMAIN es : es[j].k = k => j <= i
    IN [k \in keys |-> es[last(k)].v]

DecodeValue(v) ==
    IF v.tag = "map" THEN [tag |-> "map", s |-> "", m |-> DecodeEntries(v.m)]
    ELSE [tag |-> "str", s |-> v.s, m |-> DecodeEntries(<<>>)]

\* yaml.Unmarshal into map[interface{}]interface{}: line 148.
Unmarshal(text) ==
    IF ~text.parses THEN [err |-> TRUE, val |-> DecodeEntries(<<>>)]
    ELSE LET top == DecodeEntries(text.entries)
         IN [err |-> FALSE, val |-> [k \in DOMAIN top |-> DecodeValue(top[k])]]

SortedKeys(S) == SelectSeq(KeyOrder, LAMBDA k : k \in S)

EncodeEntries(f) ==
    LET ks == SortedKeys(DOMAIN f) IN [i \in DOMAIN ks |-> Entry(ks[i], f[ks[i]])]

EncodeValue(v) ==
    IF v.tag = "map" THEN Mapping(EncodeEntries(v.m)) ELSE Scalar(v.s)

\* yaml.Marshal: line 156. ok = FALSE: the encoder reports an error.
Marshal(val, ok) ==
    IF ~ok THEN [err |-> TRUE, out |-> Text(FALSE, <<>>)]
    ELSE [err |-> FALSE,
          out |-> Text(TRUE, EncodeEntries([k \in DOMAIN val |-> EncodeValue(val[k])]))]

\* k8sUtils.GetCommandOutput(kubectl get configmap ... -o yaml): lines 137-141.
GetCommandOutput(cl, ok) ==
    IF cl.installed /\ ok THEN [err |-> FALSE, out |-> cl.text]
    ELSE [err |-> TRUE, out |-> Text(FALSE, <<>>)]

\* k8sUtils.K8sApplyFromStdin: line 162. A failed apply persists nothing.
K8sApplyFromStdin(cl, text, ok) ==
    IF ok THEN [err |-> FALSE, cluster |-> Config(text)]
    ELSE [err |-> TRUE, cluster |-> cl]

\* controllerConfigMap["data"].(map[interface{}]interface{}) succeeds.
HasDataMap(val) == "data" \in DOMAIN val /\ val["data"].tag = "map"

\* m[k] = v on a Go map.
MapSet(f, k, v) == [x \in DOMAIN f \cup {k} |-> IF x = k THEN v ELSE f[x]]

\* The two keys stored in a fresh `data` mapping.
SetConfigurations_FreshData(val, registryType, repository) ==
    LET d1 == MapSet(DecodeEntries(<<>>), CtrlConfigRegType, registryType)
        d2 == MapSet(d1, CtrlConfigReg, repository)
    IN [val EXCEPT !["data"] = [tag |-> "map", s |-> "", m |-> d2]]

\* set configurations: lines 153-154.
SetConfigurations(val, registryType, repository) ==
    LET d1 == MapSet(val["data"].m, CtrlConfigRegType, registryType)
        d2 == MapSet(d1, CtrlConfigReg, repository)
    IN [val EXCEPT !["data"] = [tag |-> "map", s |-> "", m |-> d2]]

\* What the collaborators answer during one call: env.getOk, env.encOk,
\* env.applyOk, env.runOk.
Envs == [getOk : BOOLEAN, encOk : BOOLEAN, applyOk : BOOLEAN, runOk : BOOLEAN]

Outcome(c, cl, h) == [calls |-> c, cluster |-> cl, status |-> h.status, err |-> h.err]

Returns == [status |-> "running", err |-> NoError]

ErrReadCtrlInstall == "Error reading controller-config. Install api operator"
ErrReadCtrl == "Error reading controller-config"
ErrRenderCtrl == "Error rendering controller-config"
ErrCreateCtrl == "Error creating controller-configs"

\* updateCtrlConfig looking at the encoder's error only after the apply.
updateCtrlConfig_LateEncodeCheck(registryType, repository, cl, env) ==
    LET got == GetCommandOutput(cl, env.getOk) IN
    IF got.err
      THEN Outcome(<<"get">>, cl,
                   HandleErrorAndExit(ErrReadCtrlInstall, "error reading controller-config"))
    ELSE LET dec == Unmarshal(got.out) IN
    IF dec.err
      THEN Outcome(<<"get", "unmarshal">>, cl, HandleErrorAndExit(ErrReadCtrl, "yaml"))
    ELSE IF ~HasDataMap(dec.val)
      THEN Outcome(<<"get", "unmarshal">>, cl, Panic("interface conversion"))
    ELSE LET enc == Marshal(SetConfigurations(dec.val, registryType, repository), env.encOk)
             ap == K8sApplyFromStdin(cl, enc.out, env.applyOk) IN
    IF enc.err
      THEN Outcome(<<"get", "unmarshal", "marshal", "apply">>, ap.cluster,
                   HandleErrorAndExit(ErrRenderCtrl, "yaml"))
    ELSE IF ap.err
      THEN Outcome(<<"get", "unmarshal", "marshal", "apply">>, ap.cluster,
                   HandleErrorAndExit(ErrCreateCtrl, "kubectl"))
    ELSE Outcome(<<"get", "unmarshal", "marshal", "apply">>, ap.cluster, Returns)

\* updateCtrlConfig: lines 135-165. The result lists the collaborator calls
\* made, the persisted config afterwards and how the call ended.
updateCtrlConfig(registryType, repository, cl, env) ==
    LET got == GetCommandOutput(cl, env.getOk) IN
    IF got.err
      THEN Outcome(<<"get">>, cl,
                   HandleErrorAndExit(ErrReadCtrlInstall, "error reading controller-config"))
    ELSE LET dec == Unmarshal(got.out) IN
    IF dec.err
      THEN Outcome(<<"get", "unmarshal">>, cl, HandleErrorAndExit(ErrReadCtrl, "yaml"))
    ELSE IF ~HasDataMap(dec.val)
      THEN Outcome(<<"get", "unmarshal">>, cl, Panic("interface conversion"))
    ELSE LET enc == Marshal(SetConfigurations(dec.val, registryType, repository), env.encOk) IN
    IF enc.err
      THEN Outcome(<<"get", "unmarshal", "marshal">>, cl, HandleErrorAndExit(ErrRenderCtrl, "yaml"))
    ELSE LET ap == K8sApplyFromStdin(cl, enc.out, env.applyOk) IN
    IF ap.err
      THEN Outcome(<<"get", "unmarshal", "marshal", "apply">>, ap.cluster,
                   HandleErrorAndExit(ErrCreateCtrl, "kubectl"))
    ELSE Outcome(<<"get", "unmarshal", "marshal", "apply">>, ap.cluster, Returns)

Init ==
    /\ registries = [o \in {} |-> Registry("", 0, FlagsA)]
    /\ optionToExec = 0
    /\ status = "running"
    /\ lastError = NoError
    /\ lastOp = "none"
    /\ lastInput = "none"
    /\ calls = <<>>
    /\ cluster \in {NoConfig} \cup { Config(t) : t \in ConfigTexts }
    /\ secret = FALSE

\* add without the check of line 173: a second registration overwrites.
add_Overwrite(registry) ==
    /\ Running
    /\ lastOp' = "add"
    /\ lastInput' = registry
    /\ calls' = <<>>
    /\ IF registry.Option < 1
         THEN /\ Ends(HandleErrorAndExit("Error adding registry: ", "'option' should be positive"))
              /\ UNCHANGED registries
       ELSE /\ registries' = [o \in DOMAIN registries \cup {registry.Option} |->
                                 IF o = registry.Option THEN registry ELSE registries[o]]
            /\ UNCHANGED <<status, lastError>>
    /\ UNCHANGED <<optionToExec, cluster, secret>>

\* add: lines 169-178.
add(registry) ==
    /\ Running
    /\ lastOp' = "add"
    /\ lastInput' = registry
    /\ calls' = <<>>
    /\ IF registry.Option < 1
         THEN /\ Ends(HandleErrorAndExit("Error adding registry: ", "'option' should be positive"))
              /\ UNCHANGED registries
       ELSE IF registry.Option \in DOMAIN registries
         THEN /\ Ends(HandleErrorAndExit("Error adding registry", "duplicate 'options' values"))
              /\ UNCHANGED registries
       ELSE /\ registries' = [o \in DOMAIN registries \cup {registry.Option} |->
                                 IF o = registry.Option THEN registry ELSE registries[o]]
            /\ UNCHANGED <<status, lastError>>
    /\ UNCHANGED <<optionToExec, cluster, secret>>

\* utils.ReadOption("Choose a number", min, max, true): line 91. The response
\* is a number typed by the user, text that is no number, or a failed read.
Responses ==
    { [kind |-> "int", n |-> n] : n \in (0 - 1)..(MaxOption + 1) } \cup
    { [kind |-> "text", n |-> 0], [kind |-> "eof", n |-> 0] }

ReadOption(min, max, resp) ==
    IF resp.kind = "int" /\ resp.n >= min /\ resp.n <= max
      THEN [err |-> FALSE, option |-> resp.n]
      ELSE [err |-> TRUE, option |-> 0]

\* ChooseRegistryInteractive asking for a number from 0.
ChooseRegistryInteractive_FromZero(resp) ==
    /\ Running
    /\ lastOp' = "ChooseRegistryInteractive"
    /\ lastInput' = resp
    /\ calls' = <<>>
    /\ LET keys == DOMAIN registries
           r == ReadOption(0, Cardinality(keys), resp)
       IN IF r.err
            THEN /\ Ends(HandleErrorAndExit("Error reading registry type", resp.kind))
                 /\ UNCHANGED optionToExec
            ELSE /\ optionToExec' = r.option
                 /\ UNCHANGED <<status, lastError>>
    /\ UNCHANGED <<registries, cluster, secret>>

\* ChooseRegistryInteractive: lines 78-97.
ChooseRegistryInteractive(resp) ==
    /\ Running
    /\ lastOp' = "ChooseRegistryInteractive"
    /\ lastInput' = resp
    /\ calls' = <<>>
    /\ LET keys == DOMAIN registries
           r == ReadOption(1, Cardinality(keys), resp)
       IN IF r.err
            THEN /\ Ends(HandleErrorAndExit("Error reading registry type", resp.kind))
                 /\ UNCHANGED optionToExec
            ELSE /\ optionToExec' = r.option
                 /\ UNCHANGED <<status, lastError>>
    /\ UNCHANGED <<registries, cluster, secret>>

\* The options the loop of SetRegistry may stop at (map order is unspecified).
Matches(registryType) ==
    { opt \in DOMAIN registries : registries[opt].Name = registryType }

\* SetRegistry storing the option before it compares the name.
SetRegistry_AssignsBeforeCompare(registryType) ==
    /\ Running
    /\ lastOp' = "SetRegistry"
    /\ lastInput' = registryType
    /\ calls' = <<>>
    /\ IF Matches(registryType) # {}
         THEN /\ \E opt \in Matches(registryType) : optionToExec' = opt
              /\ UNCHANGED <<status, lastError>>
         ELSE /\ Ends(HandleErrorAndExit("Invalid registry type: ", registryType))
              /\ IF DOMAIN registries = {} THEN UNCHANGED optionToExec
                 ELSE \E opt \in DOMAIN registries : optionToExec' = opt
    /\ UNCHANGED <<registries, cluster, secret>>

\* SetRegistry: lines 100-110.
SetRegistry(registryType) ==
    /\ Running
    /\ lastOp' = "SetRegistry"
    /\ lastInput' = registryType
    /\ calls' = <<>>
    /\ IF Matches(registryType) # {}
         THEN /\ \E opt \in Matches(registryType) : optionToExec' = opt
              /\ UNCHANGED <<status, lastError>>
         ELSE /\ Ends(HandleErrorAndExit("Invalid registry type: ", registryType))
              /\ UNCHANGED optionToExec
    /\ UNCHANGED <<registries, cluster, secret>>

\* registries[optionToExec] is nil and is dereferenced.
NilDereference == Ends(Panic("nil pointer dereference"))

\* Registry.Read: stores the repository read from the user or the flags.
ReadCallback(repo) ==
    registries' = [registries EXCEPT ![optionToExec].Repository = repo]

\* ReadInputsInteractive: lines 60-62.
ReadInputsInteractive ==
    /\ Running
    /\ lastOp' = "ReadInputsInteractive"
    /\ lastInput' = "nil"
    /\ calls' = <<>>
    /\ IF HasSelected
         THEN /\ \E repo \in Repos : ReadCallback(repo)
              /\ UNCHANGED <<status, lastError>>
         ELSE /\ NilDereference
              /\ UNCHANGED registries
    /\ UNCHANGED <<optionToExec, cluster, secret>>

\* ReadInputsFromFlags: lines 65-67.
ReadInputsFromFlags(flagValues) ==
    /\ Running
    /\ lastOp' = "ReadInputsFromFlags"
    /\ lastInput' = "flags"
    /\ calls' = <<>>
    /\ IF HasSelected
         THEN /\ \E repo \in Repos : ReadCallback(repo)
              /\ UNCHANGED <<status, lastError>>
         ELSE /\ NilDereference
              /\ UNCHANGED registries
    /\ UNCHANGED <<optionToExec, cluster, secret>>

\* First loop of ValidateFlags (lines 116-121): the required flags not provided.
MissingRequired(flags, flagsValues) ==
    { flg \in DOMAIN flags.RequiredFlags :
        flags.RequiredFlags[flg] /\ ~Lookup(flagsValues, flg) }

\* The second loop without the test of IsProvided.
Additional_IgnoresProvided(flags, flagsValues) ==
    { flg \in DOMAIN flagsValues :
        /\ ~Lookup(flags.RequiredFlags, flg)
        /\ ~Lookup(flags.OptionalFlags, flg) }

\* Second loop of ValidateFlags (lines 124-129): the provided flags that are
\* neither required nor optional.
Additional(flags, flagsValues) ==
    { flg \in DOMAIN flagsValues :
        /\ flagsValues[flg]
        /\ ~Lookup(flags.RequiredFlags, flg)
        /\ ~Lookup(flags.OptionalFlags, flg) }

ErrRequired == "Required flag is missing in batch mode. Flag: "
ErrAdditional == "Invalid, not supported flag found in batch mode. Flag: "

\* ValidateFlags with its two loops in the other order.
ValidateFlagsEnds_AdditionalFirst(flags, flagsValues) ==
    IF Additional(flags, flagsValues) # {}
      THEN { HandleErrorAndExit(ErrAdditional, flg) : flg \in Additional(flags, flagsValues) }
    ELSE IF MissingRequired(flags, flagsValues) # {}
      THEN { HandleErrorAndExit(ErrRequired, flg) : flg \in MissingRequired(flags, flagsValues) }
    ELSE { Returns }

\* The ways ValidateFlags may end. The flag named in an error is the first
\* offending one in map order, which is unspecified.
ValidateFlagsEnds(flags, flagsValues) ==
    IF MissingRequired(flags, flagsValues) # {}
      THEN { HandleErrorAndExit(ErrRequired, flg) : flg \in MissingRequired(flags, flagsValues) }
    ELSE IF Additional(flags, flagsValues) # {}
      THEN { HandleErrorAndExit(ErrAdditional, flg) : flg \in Additional(flags, flagsValues) }
    ELSE { Returns }

\* ValidateFlags: lines 114-132.
ValidateFlags(flagsValues) ==
    /\ Running
    /\ lastOp' = "ValidateFlags"
    /\ lastInput' = flagsValues
    /\ calls' = <<>>
    /\ IF HasSelected
         THEN \E h \in ValidateFlagsEnds(Selected.Flags, flagsValues) : Ends(h)
         ELSE NilDereference
    /\ UNCHANGED <<registries, optionToExec, cluster, secret>>

\* Registry.Run: creates the secret, or ends the process on an error.
ErrSecret == "Error creating secret"

RunCallback(out, sec, ok) ==
    LET h == IF ok THEN Returns ELSE HandleErrorAndExit(ErrSecret, "kubectl")
    IN [calls |-> Append(out.calls, "run"), cluster |-> out.cluster,
        status |-> h.status, err |-> h.err, secret |-> sec \/ ok]

\* UpdateConfigsSecrets creating the secret first.
UpdateConfigsSecretsBody_RunFirst(reg, cl, sec, env) ==
    LET run == RunCallback([calls |-> <<>>, cluster |-> cl], sec, env.runOk) IN
    IF run.status # "running" THEN run
    ELSE LET out == updateCtrlConfig(reg.Name, reg.Repository, cl, env)
         IN [calls |-> run.calls \o out.calls, cluster |-> out.cluster,
             status |-> out.status, err |-> out.err, secret |-> run.secret]

\* UpdateConfigsSecrets putting the old controller config back when Run fails.
UpdateConfigsSecretsBody_Rollback(reg, cl, sec, env) ==
    LET out == updateCtrlConfig(reg.Name, reg.Repository, cl, env) IN
    IF out.status # "running"
      THEN [calls |-> out.calls, cluster |-> out.cluster, status |-> out.status,
            err |-> out.err, secret |-> sec]
      ELSE LET run == RunCallback(out, sec, env.runOk)
           IN IF run.status = "running" THEN run ELSE [run EXCEPT !.cluster = cl]

\* Body of UpdateConfigsSecrets, lines 72-74, for a selected registry reg.
UpdateConfigsSecretsBody(reg, cl, sec, env) ==
    LET out == updateCtrlConfig(reg.Name, reg.Repository, cl, env) IN
    IF out.status # "running"
      THEN [calls |-> out.calls, cluster |-> out.cluster, status |-> out.status,
            err |-> out.err, secret |-> sec]
      ELSE RunCallback(out, sec, env.runOk)

\* UpdateConfigsSecrets: lines 70-75.
UpdateConfigsSecrets(env) ==
    /\ Running
    /\ lastOp' = "UpdateConfigsSecrets"
    /\ lastInput' = "none"
    /\ IF HasSelected
         THEN LET res == UpdateConfigsSecretsBody(Selected, cluster, secret, env)
              IN /\ calls' = res.calls
                 /\ cluster' = res.cluster
                 /\ status' = res.status
                 /\ lastError' = res.err
                 /\ secret' = res.secret
         ELSE /\ NilDereference
              /\ calls' = <<>>
              /\ UNCHANGED <<cluster, secret>>
    /\ UNCHANGED <<registries, optionToExec>>

Next ==
    \/ \E r \in Registrations : add(r)
    \/ \E resp \in Responses : ChooseRegistryInteractive(resp)
    \/ \E t \in RegistryTypes : SetRegistry(t)
    \/ ReadInputsInteractive
    \/ \E fv \in FlagValueMaps : ReadInputsFromFlags(fv)
    \/ \E fv \in FlagValueMaps : ValidateFlags(fv)
    \/ \E env \in Envs : UpdateConfigsSecrets(env)

Spec == Init /\ [][Next]_vars

\* ==================================================================== claims
\* C1: add of a descriptor with option <= 0 fails fatally and leaves the
\* catalog unchanged; add of a descriptor whose option is occupied fails
\* fatally and leaves the existing entry unchanged; add of a descriptor with a
\* positive, unoccupied option succeeds and the descriptor is then retrievable
\* under its option. Every catalog key is >= 1 and add never overwrites an
\* entry.
C1_AddStep ==
    lastOp' = "add" =>
        LET registry == lastInput' IN
        /\ registry.Option <= 0 =>
              status' = "exited" /\ registries' = registries
        /\ (registry.Option > 0 /\ registry.Option \in DOMAIN registries) =>
              status' = "exited" /\ registries' = registries
        /\ (registry.Option > 0 /\ registry.Option \notin DOMAIN registries) =>
              /\ status' = "running"
              /\ registry.Option \in DOMAIN registries'
              /\ registries'[registry.Option] = registry
        /\ \A o \in DOMAIN registries :
              o \in DOMAIN registries' /\ registries'[o] = registries[o]
        /\ \A o \in DOMAIN registries' : o >= 1

C1_AddContract == [][C1_AddStep]_vars

\* A second descriptor was refused for an occupied option and the first one
\* is still the one registered there.
C1_Witness ==
    /\ lastOp = "add"
    /\ status = "exited"
    /\ lastInput.Option \in DOMAIN registries
    /\ registries[lastInput.Option].Name # lastInput.Name

\* Marked(m, flg): the map m holds true for flg.
Marked(m, flg) == flg \in DOMAIN m /\ m[flg]

RequiredAllProvided(flags, flagsValues) ==
    \A flg \in FlagNames :
        Marked(flags.RequiredFlags, flg) => Marked(flagsValues, flg)

\* C2 as stated: ValidateFlags returns if and only if every flag marked
\* required is provided and every provided flag is a key of the required or of
\* the optional map.
C2_AsStated ==
    (lastOp = "ValidateFlags" /\ HasSelected) =>
        LET flags == Selected.Flags IN
        (status = "running") <=>
            /\ RequiredAllProvided(flags, lastInput)
            /\ \A flg \in DOMAIN lastInput :
                  lastInput[flg] =>
                      \/ flg \in DOMAIN flags.RequiredFlags
                      \/ flg \in DOMAIN flags.OptionalFlags

\* C2 amended: ValidateFlags returns if and only if every flag marked required
\* is provided and every provided flag is marked true in the required or in
\* the optional map; otherwise the process ends. A flag is reported as not
\* supported only if it was provided and is marked true in neither map.
C2_ValidateFlags ==
    (lastOp = "ValidateFlags" /\ HasSelected) =>
        LET flags == Selected.Flags IN
        /\ (status = "running") <=>
              /\ RequiredAllProvided(flags, lastInput)
              /\ \A flg \in DOMAIN lastInput :
                    lastInput[flg] =>
                        \/ Marked(flags.RequiredFlags, flg)
                        \/ Marked(flags.OptionalFlags, flg)
        /\ status # "running" => status = "exited"
        /\ lastError[1] = ErrAdditional =>
              /\ Marked(lastInput, lastError[2])
              /\ ~Marked(flags.RequiredFlags, lastError[2])
              /\ ~Marked(flags.OptionalFlags, lastError[2])

\* A provided flag that is a key of RequiredFlags with the value false was
\* reported as not supported.
C2_Witness ==
    /\ lastOp = "ValidateFlags"
    /\ HasSelected
    /\ status = "exited"
    /\ lastError[1] = ErrAdditional
    /\ lastError[2] \in DOMAIN Selected.Flags.RequiredFlags

CtrlConfigCalls == <<"get", "unmarshal", "marshal", "apply">>

CtrlConfigFailed(err) ==
    err[1] \in {ErrReadCtrlInstall, ErrReadCtrl, ErrRenderCtrl, ErrCreateCtrl, "panic"}

IsPrefix(p, q) == Len(p) <= Len(q) /\ \A i \in DOMAIN p : p[i] = q[i]

\* C3: in UpdateConfigsSecrets every call of the controller-config update
\* comes before the call of Run, which happens only after the update has
\* applied the config; when the update fails the process ends, Run is never
\* called and the secret is untouched.
C3_Step ==
    lastOp' = "UpdateConfigsSecrets" =>
        /\ \A i \in DOMAIN calls' :
              calls'[i] = "run" =>
                  i = Len(calls') /\ SubSeq(calls', 1, i - 1) = CtrlConfigCalls
        /\ CtrlConfigFailed(lastError') =>
              /\ status' # "running"
              /\ \A i \in DOMAIN calls' : calls'[i] # "run"
              /\ secret' = secret

C3_ConfigBeforeRun == [][C3_Step]_vars

\* Run was called, after the four steps of the config update.
C3_Witness ==
    /\ lastOp = "UpdateConfigsSecrets"
    /\ calls = Append(CtrlConfigCalls, "run")
    /\ secret

\* C4: SetRegistry(name) selects the option of a descriptor with that name
\* when there is one; otherwise it ends the process with "Invalid registry
\* type" and the selection keeps its value.
C4_Step ==
    lastOp' = "SetRegistry" =>
        IF \E o \in DOMAIN registries : registries[o].Name = lastInput'
          THEN /\ status' = "running"
               /\ optionToExec' \in DOMAIN registries
               /\ registries[optionToExec'].Name = lastInput'
          ELSE /\ status' = "exited"
               /\ lastError'[1] = "Invalid registry type: "
               /\ optionToExec' = optionToExec

C4_SetRegistry == [][C4_Step]_vars

\* An unknown name was refused while a registry was selected, and it still is.
C4_Witness ==
    /\ lastOp = "SetRegistry"
    /\ status = "exited"
    /\ lastInput = "NONE"
    /\ HasSelected

\* C5: ChooseRegistryInteractive stores only selections in 1..count, count
\* the number of registered descriptors; a response that is out of that
\* range, not a number or not read ends the process and leaves the selection
\* as it was.
C5_Step ==
    lastOp' = "ChooseRegistryInteractive" =>
        LET count == Cardinality(DOMAIN registries)
            resp == lastInput'
            valid == resp.kind = "int" /\ resp.n \in 1..count
        IN /\ optionToExec' # optionToExec => optionToExec' \in 1..count
           /\ valid => status' = "running" /\ optionToExec' = resp.n
           /\ ~valid => status' = "exited" /\ optionToExec' = optionToExec

C5_ChooseInRange == [][C5_Step]_vars

\* A number above count was refused while a registry was selected.
C5_Witness ==
    /\ lastOp = "ChooseRegistryInteractive"
    /\ status = "exited"
    /\ lastInput.kind = "int"
    /\ lastInput.n > Cardinality(DOMAIN registries)
    /\ HasSelected

\* The decoded controller config of a cluster.
ConfigOf(cl) == Unmarshal(cl.text).val

\* C6: when updateCtrlConfig succeeds, the config applied is the config read
\* except that under `data` the registry-type key holds the registry's name
\* and the repository key holds its repository; every other top-level key
\* and every other key of `data` is kept with its value.
C6_Step ==
    (/\ lastOp' = "UpdateConfigsSecrets"
     /\ ~CtrlConfigFailed(lastError')
     /\ HasSelected) =>
        LET old == ConfigOf(cluster)
            new == ConfigOf(cluster')
        IN /\ cluster'.installed /\ cluster'.text.parses
           /\ DOMAIN new = DOMAIN old
           /\ \A k \in DOMAIN old \ {"data"} : new[k] = old[k]
           /\ new["data"].tag = "map"
           /\ DOMAIN new["data"].m =
                 DOMAIN old["data"].m \cup {CtrlConfigRegType, CtrlConfigReg}
           /\ new["data"].m[CtrlConfigRegType] = Selected.Name
           /\ new["data"].m[CtrlConfigReg] = Selected.Repository
           /\ \A k \in DOMAIN old["data"].m \ {CtrlConfigRegType, CtrlConfigReg} :
                 new["data"].m[k] = old["data"].m[k]

C6_ConfigFrame == [][C6_Step]_vars

\* A config with other keys was updated: the former registry type and
\* repository are overwritten, `kind` and `dockerfile` are still there.
C6_Witness ==
    /\ lastOp = "UpdateConfigsSecrets"
    /\ status = "running"
    /\ HasSelected
    /\ cluster.installed /\ cluster.text.parses
    /\ "kind" \in DOMAIN ConfigOf(cluster)
    /\ "dockerfile" \in DOMAIN ConfigOf(cluster)["data"].m
    /\ ConfigOf(cluster)["data"].m[CtrlConfigRegType] = "AMAZON_ECR"
    /\ ConfigOf(cluster)["data"].m[CtrlConfigReg] = "repo1"

\* C7: when the input of ValidateFlags lacks a required flag and also holds a
\* provided flag that is neither required nor optional, the error reported
\* is the one of the missing required flag.
C7_RequiredFirst ==
    (/\ lastOp = "ValidateFlags"
     /\ HasSelected
     /\ ~RequiredAllProvided(Selected.Flags, lastInput)
     /\ \E flg \in DOMAIN lastInput :
           /\ lastInput[flg]
           /\ ~Marked(Selected.Flags.RequiredFlags, flg)
           /\ ~Marked(Selected.Flags.OptionalFlags, flg)) =>
        /\ status = "exited"
        /\ lastError[1] = ErrRequired
        /\ Marked(Selected.Flags.RequiredFlags, lastError[2])
        /\ ~Marked(lastInput, lastError[2])

\* The input lacked the required u and provided k, which no map lists: the
\* error names u.
C7_Witness ==
    /\ lastOp = "ValidateFlags"
    /\ HasSelected
    /\ Selected.Flags = FlagsB
    /\ "u" \notin DOMAIN lastInput
    /\ Marked(lastInput, "k")
    /\ lastError = <<ErrRequired, "u">>

\* C8: updateCtrlConfig reads, decodes, encodes and applies in that order;
\* when it fails, the persisted controller config is what it was before the
\* call, and when the read, the decode or the encode fails, apply is not
\* called.
C8_Step ==
    lastOp' = "UpdateConfigsSecrets" =>
        /\ IsPrefix(calls', Append(CtrlConfigCalls, "run"))
        /\ (\A i \in DOMAIN calls' : calls'[i] # "apply") => cluster' = cluster
        /\ CtrlConfigFailed(lastError') => cluster' = cluster
        /\ lastError'[1] \in {ErrReadCtrlInstall, ErrReadCtrl, ErrRenderCtrl, "panic"} =>
              /\ status' # "running"
              /\ \A i \in DOMAIN calls' : calls'[i] # "apply"

C8_NothingPersistedOnFailure == [][C8_Step]_vars

\* The apply failed after read, decode and encode.
C8_Witness ==
    /\ lastOp = "UpdateConfigsSecrets"
    /\ status = "exited"
    /\ lastError[1] = ErrCreateCtrl
    /\ calls = CtrlConfigCalls
    /\ cluster.installed

\* The config holds the selected registry's name and repository.
ConfigHoldsSelected(cl) ==
    /\ cl.installed /\ cl.text.parses
    /\ HasDataMap(ConfigOf(cl))
    /\ CtrlConfigRegType \in DOMAIN ConfigOf(cl)["data"].m
    /\ ConfigOf(cl)["data"].m[CtrlConfigRegType] = Selected.Name
    /\ CtrlConfigReg \in DOMAIN ConfigOf(cl)["data"].m
    /\ ConfigOf(cl)["data"].m[CtrlConfigReg] = Selected.Repository

RunFailed == lastOp = "UpdateConfigsSecrets" /\ lastError[1] = ErrSecret

\* C9: when Run fails after the controller config was updated, the persisted
\* config holds the new registry type and repository, this call has created
\* no secret, and nothing changes that state afterwards.
C9_Step ==
    /\ (lastOp' = "UpdateConfigsSecrets" /\ lastError'[1] = ErrSecret) =>
          /\ status' = "exited"
          /\ ConfigHoldsSelected(cluster')
          /\ secret' = secret
    /\ RunFailed => (cluster' = cluster /\ secret' = secret /\ RunFailed')

C9_NoRollback == [][C9_Step]_vars

\* The config was changed to the selected registry and there is no secret.
C9_Witness ==
    /\ RunFailed
    /\ HasSelected
    /\ ~secret
    /\ Selected.Name = "AMAZON_ECR"
    /\ ConfigHoldsSelected(cluster)

\* C10: after a successful ChooseRegistryInteractive or SetRegistry the
\* selected option is a key of the catalog.
C10_SelectionInCatalog ==
    (lastOp \in {"ChooseRegistryInteractive", "SetRegistry"} /\ status = "running") =>
        optionToExec \in DOMAIN registries
====
